---- MODULE Spec2Model ----
(***************************************************************************)
(* Consultation request / chat / message lifecycle of the healthcare web   *)
(* application: chat/models.py, chat/views.py, chat/admin.py,               *)
(* chat/forms.py, chat/consumers.py and personal/admin.py.                  *)
(*                                                                         *)
(* The database rows are the shared state.  Every HTTP view runs without a *)
(* transaction, so each of its database statements is one step; every      *)
(* @database_sync_to_async function of a consumer is one step, and the      *)
(* awaits between them are the points where other handlers interleave.      *)
(***************************************************************************)
EXTENDS Integers, Sequences, FiniteSets, TLC

\* ---------------------------------------------------------------- bounds
MaxRequests == 1
MaxMessages == 2
MaxTime == 1
MaxInFlight == 2
MaxTyping == 1
MaxChats == 2
MaxSaving == 2

\* ---------------------------------------------------------------- domain
NULL == "null"

\* Request.Status (chat/models.py:9-14)
WAITING == "waiting"
ASSIGNED == "assigned"
WAITING_DOCTOR == "waiting_doctor"
DOCTOR_REPLIED == "doctor_replied"
CLOSED == "closed"
Status == {WAITING, ASSIGNED, WAITING_DOCTOR, DOCTOR_REPLIED, CLOSED}

\* Request.Specialization (chat/models.py:16-19), two of the three values
Specialization == {"nutritionist", "psychologist"}

\* Users of the system: one patient (has a UserProfile) and two users that
\* have a Doctor row.  A Doctor row is identified with its user.
Patients == {"pat"}
DoctorUsers == {"docA", "docB"}
Users == Patients \cup DoctorUsers

\* scope['user'] of a connection without a session is the AnonymousUser
Anonymous == "anon"
is_authenticated(u) == u # Anonymous

\* Doctor.specialization (personal/models.py:128-132)
DoctorSpecialization(d) == "nutritionist"

\* The texts a client can submit: empty, whitespace only, and a real text
Texts == {"", " ", "hi"}

\* Mutant: the text is taken as submitted
StripNothing(t) == t

\* str.strip() / the form field's strip=True
Strip(t) == IF t = " " THEN "" ELSE t

\* Message.read_at is NULL (null=True) until the message is read
NoTime == -1

VARIABLES
    profiles,    \* the users that have a UserProfile row
    saving,      \* UserProfile / Doctor saves that passed validation, not yet written
    lists,       \* per chat-list connection: the ChatListConsumer instance
    doctors,     \* the users that have a Doctor row
    requests,    \* Request rows, id = index
    chats,       \* Chat rows, id = index
    messages,    \* Message rows, id = index
    now,         \* timezone.now()
    http,        \* per user: the HTTP request the user has in flight
    ws,          \* per connection: the ChatConsumer instance
    published    \* events handed to channel_layer.group_send, in order

vars == <<profiles, saving, lists, doctors, requests, chats, messages, now, http, ws, published>>

RequestIds == 1..Len(requests)
ChatIds == 1..Len(chats)
MessageIds == 1..Len(messages)

\* hasattr(user, 'doctor')
HasDoctor(u) == u \in doctors

\* Chat rows whose request is r
ChatsOf(r) == {c \in ChatIds : chats[c].request = r}

\* ------------------------------------------------------------ processes
NoRequest == [patient |-> NULL, doctor |-> NULL, specialization |-> NULL, status |-> NULL]

\* An HTTP request of a user: pc is the statement it is about to run, result
\* the response once pc = "done"
HttpIdle == [pc |-> "idle", result |-> "none", r |-> 0, copy |-> NoRequest,
             isDoctor |-> FALSE, text |-> "", file |-> FALSE, todo |-> <<>>, seen |-> 0]

HttpDone(res, id) == [HttpIdle EXCEPT !.pc = "done", !.result = res, !.r = id]

\* A ChatConsumer instance: chat_id and user are set by connect; pc is the
\* await its receive() is suspended at
WsClosed == [open |-> FALSE, user |-> NULL, chat |-> 0, isDoctor |-> FALSE,
             pc |-> "idle", result |-> "none", text |-> "", file_url |-> FALSE,
             msg |-> 0, doctor_id |-> NULL, count |-> 0]

\* The connections; the lifecycle and chat specifications open only the first
Conns == {"c1", "c2"}
FirstConn == {"c1"}

\* Every account (django User): the users above and one that has neither a
\* UserProfile nor a Doctor
Accounts == Users \cup {"new"}

\* A ChatListConsumer instance: state is none (no connection), open, rejected
\* (closed by connect) or closed (disconnect has run, result tells how);
\* hasGroup tells whether connect has set self.user_group_name
ListNone == [state |-> "none", user |-> NULL, hasGroup |-> FALSE, result |-> "none"]

ListConns == {"l1"}

Init ==
    /\ profiles = Patients
    /\ saving = {}
    /\ lists = [l \in ListConns |-> ListNone]
    /\ doctors = DoctorUsers
    /\ requests = <<>>
    /\ chats = <<>>
    /\ messages = <<>>
    /\ now = 0
    /\ http = [u \in Users |-> HttpIdle]
    /\ ws = [c \in Conns |-> WsClosed]
    /\ published = <<>>

\* Handlers that have started and not yet returned
InFlight ==
    Cardinality({u \in Users : http[u].pc # "idle"})
      + Cardinality({c \in Conns : ws[c].pc # "idle"})

CanStart == InFlight < MaxInFlight

\* timezone.now() advances
Tick ==
    /\ now < MaxTime
    /\ now' = now + 1
    /\ UNCHANGED <<profiles, saving, lists, doctors, requests, chats, messages, http, ws, published>>

\* The response of a finished HTTP request is returned
HttpReturn(u) ==
    /\ http[u].pc = "done"
    /\ http' = [http EXCEPT ![u] = HttpIdle]
    /\ UNCHANGED <<profiles, saving, lists, doctors, requests, chats, messages, now, ws, published>>

\* ------------------------------------------------------- Request lifecycle
\* RequestCreateView.form_valid: a patient (profile, no doctor) creates a
\* Request; status defaults to waiting, doctor to NULL
RequestCreateUpTo(u, sp, n) ==
    /\ http[u].pc = "idle"
    /\ u \in profiles /\ ~HasDoctor(u)
    /\ Len(requests) < n
    /\ requests' = Append(requests,
           [patient |-> u, doctor |-> NULL, specialization |-> sp, status |-> WAITING])
    /\ UNCHANGED <<profiles, saving, lists, doctors, chats, messages, now, http, ws, published>>

RequestCreate(u, sp) == RequestCreateUpTo(u, sp, MaxRequests)

\* Mutant: the specialization check is skipped
SpecializationNotChecked(req, d) == TRUE

\* The comparison RequestAcceptView.post makes before it accepts
SpecializationMatches(req, d) == req.specialization = DoctorSpecialization(d)

\* Writing a Request row whose doctor_id names no Doctor row violates the
\* foreign key
ForeignKeyOk(row) == row.doctor = NULL \/ row.doctor \in doctors

\* RequestAcceptView.post, up to the specialization check.  The view is for
\* doctors only, and get_object_or_404 answers 404 (nothing happens) unless
\* the Request exists with status waiting
AcceptLoad(u, r) ==
    /\ http[u].pc = "idle" /\ CanStart
    /\ HasDoctor(u)
    /\ r \in RequestIds /\ requests[r].status = WAITING
    /\ IF ~SpecializationMatches(requests[r], u)
         THEN http' = [http EXCEPT ![u] = HttpDone("accept_mismatch", r)]
         ELSE http' = [http EXCEPT ![u] =
                  [HttpIdle EXCEPT !.pc = "accept_save", !.r = r,
                      !.copy = [requests[r] EXCEPT !.doctor = u, !.status = ASSIGNED]]]
    /\ UNCHANGED <<profiles, saving, lists, doctors, requests, chats, messages, now, ws, published>>

\* request_obj.save(): the whole row is written from the loaded copy
AcceptSave(u) ==
    /\ http[u].pc = "accept_save"
    /\ IF ForeignKeyOk(http[u].copy)
         THEN /\ requests' = [requests EXCEPT ![http[u].r] = http[u].copy]
              /\ http' = [http EXCEPT ![u].pc = "accept_chat"]
         ELSE /\ http' = [http EXCEPT ![u] = HttpDone("accept_error_fk", http[u].r)]
              /\ UNCHANGED requests
    /\ UNCHANGED <<profiles, saving, lists, doctors, chats, messages, now, ws, published>>

\* Mutant: chat.request is a plain foreign key, not unique
ChatCreateNotUnique(r) == Append(chats, [request |-> r, updated_at |-> now])

\* Chat.objects.create(request=r): the OneToOneField makes chat.request
\* unique, a second Chat for r is an IntegrityError
ChatCreate(r) ==
    IF ChatsOf(r) = {}
      THEN Append(chats, [request |-> r, updated_at |-> now])
      ELSE chats

AcceptCreateChat(u) ==
    /\ http[u].pc = "accept_chat"
    /\ chats' = ChatCreate(http[u].r)
    /\ http' = [http EXCEPT ![u] =
           HttpDone(IF ChatsOf(http[u].r) = {} THEN "accept_ok" ELSE "accept_error_chat", http[u].r)]
    /\ UNCHANGED <<profiles, saving, lists, doctors, requests, messages, now, ws, published>>

\* RequestAdmin.assign_status_waiting / assign_status_closed:
\* queryset.update(status=...) on the selected Request
AdminSetStatus(r, st) ==
    /\ r \in RequestIds
    /\ requests' = [requests EXCEPT ![r].status = st]
    /\ UNCHANGED <<profiles, saving, lists, doctors, chats, messages, now, http, ws, published>>

assign_status_waiting(r) == AdminSetStatus(r, WAITING)

assign_status_closed(r) == AdminSetStatus(r, CLOSED)

\* DoctorAdmin.delete_model: refused while the doctor has active requests;
\* Request.doctor is on_delete=SET_NULL
ActiveRequests(d) ==
    {r \in RequestIds : requests[r].doctor = d
        /\ requests[r].status \in {ASSIGNED, WAITING_DOCTOR, DOCTOR_REPLIED}}

DoctorDelete(d) ==
    /\ d \in doctors
    /\ ActiveRequests(d) = {}
    /\ doctors' = doctors \ {d}
    /\ requests' = [r \in RequestIds |->
           IF requests[r].doctor = d THEN [requests[r] EXCEPT !.doctor = NULL]
           ELSE requests[r]]
    /\ UNCHANGED <<profiles, saving, lists, chats, messages, now, http, ws, published>>

\* ---------------------------------------------------------------- accounts
\* UserProfile.clean (called by save through full_clean) and the pre_save
\* receiver prevent_userprofile_doctor_conflict, for the profile old (NULL for
\* a new one) that is to belong to user u: refused when the profile is new or
\* changes its user and u has a Doctor; the one-to-one field user is unique
UserProfileValid(old, u) ==
    old = u \/ (u \notin doctors /\ u \notin profiles)

\* Doctor.clean and prevent_doctor_userprofile_conflict, the same for a Doctor
DoctorValid(old, u) ==
    old = u \/ (u \notin profiles /\ u \notin doctors)

\* UserProfile.save up to super().save(): validation passed
UserProfileSaveClean(old, u) ==
    /\ Cardinality(saving) < MaxSaving
    /\ old \in profiles \cup {NULL}
    /\ UserProfileValid(old, u)
    /\ saving' = saving \cup {[model |-> "profile", old |-> old, user |-> u]}
    /\ UNCHANGED <<profiles, lists, doctors, requests, chats, messages, now, http, ws, published>>

\* super().save() of a UserProfile: the row is written unless another
\* profile has the user (unique constraint)
UserProfileSaveWrite(old, u) ==
    /\ [model |-> "profile", old |-> old, user |-> u] \in saving
    /\ saving' = saving \ {[model |-> "profile", old |-> old, user |-> u]}
    /\ profiles' = IF old # u /\ u \in profiles THEN profiles
                   ELSE (profiles \ {old}) \cup {u}
    /\ UNCHANGED <<lists, doctors, requests, chats, messages, now, http, ws, published>>

\* Doctor.save up to super().save(): validation passed
DoctorSaveClean(old, u) ==
    /\ Cardinality(saving) < MaxSaving
    /\ old \in doctors \cup {NULL}
    /\ DoctorValid(old, u)
    /\ saving' = saving \cup {[model |-> "doctor", old |-> old, user |-> u]}
    /\ UNCHANGED <<profiles, lists, doctors, requests, chats, messages, now, http, ws, published>>

\* super().save() of a Doctor: the row is written unless another Doctor has
\* the user; the requests of the row stay with it
DoctorSaveWrite(old, u) ==
    /\ [model |-> "doctor", old |-> old, user |-> u] \in saving
    /\ saving' = saving \ {[model |-> "doctor", old |-> old, user |-> u]}
    /\ IF old # u /\ u \in doctors
         THEN UNCHANGED <<doctors, requests>>
         ELSE /\ doctors' = (doctors \ {old}) \cup {u}
              /\ requests' = [r \in RequestIds |->
                     IF old # NULL /\ requests[r].doctor = old
                       THEN [requests[r] EXCEPT !.doctor = u]
                       ELSE requests[r]]
    /\ UNCHANGED <<profiles, lists, chats, messages, now, http, ws, published>>

\* ---------------------------------------------------------------- messages
NewMessage(ch, u, text, file) ==
    [chat |-> ch, sender |-> u, text |-> text, file |-> file,
     is_read |-> FALSE, read_at |-> NoTime]

\* Sends that passed validation and have not yet inserted their Message
PendingSends ==
    Cardinality({u \in Users : http[u].pc = "send_message"})
      + Cardinality({c \in Conns : ws[c].pc = "save"})

CanSend == Len(messages) + PendingSends < MaxMessages

\* The Request row of chat ch
RequestOf(ch) == requests[chats[ch].request]

\* Mutant: is_read is set without read_at
MarkAsReadNoTime(msgs, m) == [msgs EXCEPT ![m].is_read = TRUE]

\* Message.mark_as_read on a loaded copy whose is_read is False: is_read and
\* read_at are set and the row is saved
MarkAsRead(msgs, m) == [msgs EXCEPT ![m].is_read = TRUE, ![m].read_at = now]

RECURSIVE MarkAll(_, _)
MarkAll(msgs, ids) ==
    IF ids = <<>> THEN msgs ELSE MarkAll(MarkAsRead(msgs, Head(ids)), Tail(ids))

\* messages.filter(chat=ch, is_read=False).exclude(sender=u), ordered by id
RECURSIVE UnreadFrom(_, _, _)
UnreadFrom(ch, u, m) ==
    IF m > Len(messages) THEN <<>>
    ELSE IF messages[m].chat = ch /\ ~messages[m].is_read /\ messages[m].sender # u
      THEN <<m>> \o UnreadFrom(ch, u, m + 1)
      ELSE UnreadFrom(ch, u, m + 1)

\* Mutant: only the first unread message is taken
UnreadFirstOnly(ch, u) ==
    IF UnreadFrom(ch, u, 1) = <<>> THEN <<>> ELSE <<Head(UnreadFrom(ch, u, 1))>>

UnreadMessages(ch, u) == UnreadFrom(ch, u, 1)

\* Mutant: the viewer's own messages are counted too
UnreadCountOwnIncluded(ch, u) == Len(UnreadFrom(ch, NULL, 1))

\* Mutant: read messages are counted too
get_unread_count_read_included(ch, user_id) ==
    Cardinality({m \in MessageIds : messages[m].chat = ch /\ messages[m].sender # user_id})

\* Chat.get_unread_count_for_user / ChatConsumer.get_unread_count
get_unread_count_for_user(ch, u) == Len(UnreadMessages(ch, u))

get_unread_count(ch, user_id) ==
    IF user_id \in Users /\ ch \in ChatIds THEN Len(UnreadMessages(ch, user_id)) ELSE 0

\* MessageCreateForm.clean: text (stripped by the field) or file is needed
FormValid(text, file) == ~(Strip(text) = "" /\ ~file)

\* The participant test of MessageSendView.post
SendAllowed(u, req) ==
    IF HasDoctor(u) THEN req.doctor = u ELSE req.patient = u

\* MessageSendView.post up to form.is_valid(): 404 without the Chat, a
\* redirect without access (nothing happens in either case).  The handler
\* keeps the submitted text, the form field strips it
SendLoad(u, ch, text, file) ==
    /\ http[u].pc = "idle" /\ CanStart
    /\ CanSend
    /\ ch \in ChatIds /\ SendAllowed(u, RequestOf(ch))
    /\ http' = [http EXCEPT ![u] =
         IF ~FormValid(text, file)
           THEN [HttpDone("send_invalid", ch) EXCEPT !.text = text, !.file = file]
           ELSE [HttpIdle EXCEPT !.pc = "send_message", !.r = ch,
                    !.copy = RequestOf(ch), !.isDoctor = HasDoctor(u),
                    !.text = text, !.file = file]]
    /\ UNCHANGED <<profiles, saving, lists, doctors, requests, chats, messages, now, ws, published>>

\* message.save()
SendSaveMessage(u) ==
    /\ http[u].pc = "send_message"
    /\ messages' = Append(messages, NewMessage(http[u].r, u, Strip(http[u].text), http[u].file))
    /\ http' = [http EXCEPT ![u].pc = "send_status"]
    /\ UNCHANGED <<profiles, saving, lists, doctors, requests, chats, now, ws, published>>

\* Mutant: every reply counts as the doctor's
ReplyStatusDoctorOnly(isDoctor) == DOCTOR_REPLIED

\* The status a reply of this sender sets
ReplyStatus(isDoctor) == IF isDoctor THEN DOCTOR_REPLIED ELSE WAITING_DOCTOR

\* chat.request.status = ...; chat.request.save(): the row loaded for the
\* access check is written back whole
SendSaveRequest(u) ==
    /\ http[u].pc = "send_status"
    /\ LET row == [http[u].copy EXCEPT !.status = ReplyStatus(http[u].isDoctor)]
       IN IF ForeignKeyOk(row)
            THEN requests' = [requests EXCEPT ![chats[http[u].r].request] = row]
            ELSE UNCHANGED requests
    /\ http' = [http EXCEPT ![u] = HttpIdle]
    /\ UNCHANGED <<profiles, saving, lists, doctors, chats, messages, now, ws, published>>

\* ChatDetailView.get_queryset: the chats the user may open
DetailVisible(u, ch) ==
    /\ ch \in ChatIds
    /\ IF HasDoctor(u) THEN RequestOf(ch).doctor = u ELSE RequestOf(ch).patient = u

\* ChatDetailView: get_object (404 unless the chat is visible), then the
\* unread messages of the other side are loaded
DetailOpen(u, ch) ==
    /\ http[u].pc = "idle" /\ CanStart
    /\ DetailVisible(u, ch)
    /\ http' = [http EXCEPT ![u] =
         IF UnreadMessages(ch, u) = <<>>
           THEN [HttpDone("detail_ok", ch) EXCEPT !.seen = Len(messages)]
           ELSE [HttpIdle EXCEPT !.pc = "detail_mark", !.r = ch,
                    !.todo = UnreadMessages(ch, u), !.seen = Len(messages)]]
    /\ UNCHANGED <<profiles, saving, lists, doctors, requests, chats, messages, now, ws, published>>

\* for message in unread_messages: message.mark_as_read()
DetailMark(u) ==
    /\ http[u].pc = "detail_mark"
    /\ messages' = MarkAsRead(messages, Head(http[u].todo))
    /\ http' = [http EXCEPT ![u] =
         IF Tail(http[u].todo) = <<>>
           THEN [HttpDone("detail_ok", http[u].r) EXCEPT !.seen = http[u].seen]
           ELSE [http[u] EXCEPT !.todo = Tail(http[u].todo)]]
    /\ UNCHANGED <<profiles, saving, lists, doctors, requests, chats, now, ws, published>>

\* ------------------------------------------------------------ ChatConsumer
\* Mutant: every authenticated user is let into an existing chat
check_chat_exists(u, ch) == ch \in ChatIds

\* ChatConsumer.check_chat_access
check_chat_access(u, ch) ==
    /\ ch \in ChatIds
    /\ IF HasDoctor(u)
         THEN RequestOf(ch).doctor # NULL /\ RequestOf(ch).doctor = u
         ELSE RequestOf(ch).patient = u

\* ChatConsumer.connect: without authentication or without access the
\* connection is closed (nothing changes); otherwise it joins the group
\* chat_{chat_id} and is accepted
WsConnect(c, u, ch) ==
    /\ ~ws[c].open
    /\ is_authenticated(u)
    /\ check_chat_access(u, ch)
    /\ ws' = [ws EXCEPT ![c] =
         [WsClosed EXCEPT !.open = TRUE, !.user = u, !.chat = ch, !.isDoctor = HasDoctor(u)]]
    /\ UNCHANGED <<profiles, saving, lists, doctors, requests, chats, messages, now, http, published>>

\* ChatConsumer.connect without authentication or without access: close()
\* before group_add; chat_group_name is already set
WsConnectRejected(c, u, ch) ==
    /\ ~ws[c].open /\ ws[c].pc = "idle"
    /\ ~(is_authenticated(u) /\ check_chat_access(u, ch))
    /\ ws' = [ws EXCEPT ![c] = [WsClosed EXCEPT !.pc = "rejected", !.user = u, !.chat = ch]]
    /\ UNCHANGED <<profiles, saving, lists, doctors, requests, chats, messages, now, http, published>>

\* ChatConsumer.disconnect of a rejected connection: group_discard of a
\* channel that is in no group
WsDisconnectRejected(c) ==
    /\ ws[c].pc = "rejected"
    /\ ws' = [ws EXCEPT ![c] = WsClosed]
    /\ UNCHANGED <<profiles, saving, lists, doctors, requests, chats, messages, now, http, published>>

\* ChatConsumer.disconnect, delivered between two receive() calls
WsDisconnect(c) ==
    /\ ws[c].open /\ ws[c].pc = "idle"
    /\ ws' = [ws EXCEPT ![c] = WsClosed]
    /\ UNCHANGED <<profiles, saving, lists, doctors, requests, chats, messages, now, http, published>>

\* The consumer between two frames
WsIdle(w) == [w EXCEPT !.pc = "idle", !.result = "none", !.text = "",
                       !.file_url = FALSE, !.msg = 0, !.doctor_id = NULL, !.count = 0]

\* receive() returns; result is the frame it sent to its own client, if any
WsReturn(c) ==
    /\ ws[c].pc = "done"
    /\ ws' = [ws EXCEPT ![c] = WsIdle(ws[c])]
    /\ UNCHANGED <<profiles, saving, lists, doctors, requests, chats, messages, now, http, published>>

\* The frames a client can send that are not one of the three known kinds
Malformed == {"not_json", "not_object", "unknown_type"}

\* What receive() answers to such a frame: json.loads raises JSONDecodeError,
\* data.get raises on a value that is no object (both answered with an error
\* frame), and an object with another type matches no branch
MalformedAnswer(kind) ==
    CASE kind = "not_json" -> "error_json"
      [] kind = "not_object" -> "error_exception"
      [] OTHER -> "none"

\* receive() of a frame that is none of the three known kinds
WsReceiveMalformed(c, kind) ==
    /\ ws[c].open /\ ws[c].pc = "idle" /\ CanStart
    /\ ws' = [ws EXCEPT ![c] = [ws[c] EXCEPT !.pc = "done", !.result = MalformedAnswer(kind)]]
    /\ UNCHANGED <<profiles, saving, lists, doctors, requests, chats, messages, now, http, published>>

\* The emptiness test of receive() on a chat_message frame
FrameEmpty(text, file_url) == Strip(text) = "" /\ ~file_url

\* receive(), type chat_message, up to the call of save_message
WsReceiveChatMessage(c, text, file_url) ==
    /\ ws[c].open /\ ws[c].pc = "idle" /\ CanStart
    /\ CanSend
    /\ ws' = [ws EXCEPT ![c] =
         IF FrameEmpty(text, file_url)
           THEN [ws[c] EXCEPT !.pc = "done", !.result = "error",
                              !.text = text, !.file_url = file_url]
           ELSE [ws[c] EXCEPT !.pc = "save", !.text = text, !.file_url = file_url]]
    /\ UNCHANGED <<profiles, saving, lists, doctors, requests, chats, messages, now, http, published>>

\* ChatConsumer.save_message: the Message is created with the text only,
\* file_url is not stored; chat.updated_at is set.  Any exception is caught
\* and None (here 0) is returned
save_message(c) ==
    /\ ws[c].pc = "save"
    /\ \/ /\ messages' = Append(messages,
                NewMessage(ws[c].chat, ws[c].user, Strip(ws[c].text), FALSE))
          /\ chats' = [chats EXCEPT ![ws[c].chat].updated_at = now]
          /\ ws' = [ws EXCEPT ![c].pc = "publish", ![c].msg = Len(messages) + 1]
       \/ /\ UNCHANGED <<messages, chats>>
          /\ ws' = [ws EXCEPT ![c].pc = "publish", ![c].msg = 0]
    /\ UNCHANGED <<profiles, saving, lists, doctors, requests, now, http, published>>

\* Mutant: the result of save_message is not tested
MessageNotTested(m) == TRUE

\* if message:
MessageSaved(m) == m # 0

\* ChatConsumer.chat_message, run by every consumer of the group: the frame
\* each connection of chat_{chat_id} sends to its client
ChatMessageFrames(ch, sender) ==
    {<<k, IF ws[k].user # sender THEN "new_message" ELSE "message_sent">> :
        k \in {c \in Conns : ws[c].open /\ ws[c].chat = ch}}

\* ChatConsumer.typing_indicator: not sent to the connections of the sender
TypingFrames(ch, sender) ==
    {<<k, "typing">> :
        k \in {c \in Conns : ws[c].open /\ ws[c].chat = ch /\ ws[c].user # sender}}

\* ChatListConsumer.new_chat_message, run by every consumer of the group
\* user_{user_id}_chats
ListFrames(u) ==
    {<<l, "new_chat_message">> :
        l \in {k \in ListConns : lists[k].state = "open" /\ lists[k].user = u}}

\* An event handed to group_send; frames are the frames the consumers of the
\* group send to their clients for it
Event(type, ch, u, m, n, frames) ==
    [type |-> type, chat |-> ch, user |-> u, message_id |-> m, unread_count |-> n,
     frames |-> frames]

\* if message: get_chat_info, then group_send of chat_message to
\* chat_{chat_id}; without a message receive() ends
WsPublishChat(c) ==
    /\ ws[c].pc = "publish"
    /\ IF MessageSaved(ws[c].msg)
         THEN /\ published' = Append(published,
                    Event("chat_message", ws[c].chat, NULL, ws[c].msg, 0,
                          ChatMessageFrames(ws[c].chat, ws[c].user)))
              /\ ws' = [ws EXCEPT ![c].pc = "count_patient",
                                  ![c].doctor_id = RequestOf(ws[c].chat).doctor]
         ELSE /\ ws' = [ws EXCEPT ![c] = WsIdle(ws[c])]
              /\ UNCHANGED published
    /\ UNCHANGED <<profiles, saving, lists, doctors, requests, chats, messages, now, http>>

\* patient_unread = await self.get_unread_count(chat_info["patient_id"])
WsCountPatient(c) ==
    /\ ws[c].pc = "count_patient"
    /\ ws' = [ws EXCEPT ![c].pc = "notify_patient",
                ![c].count = get_unread_count(ws[c].chat, RequestOf(ws[c].chat).patient)]
    /\ UNCHANGED <<profiles, saving, lists, doctors, requests, chats, messages, now, http, published>>

\* new_chat_message to user_{patient_id}_chats with the patient's unread count
WsNotifyPatient(c) ==
    /\ ws[c].pc = "notify_patient"
    /\ published' = Append(published,
            Event("new_chat_message", ws[c].chat, RequestOf(ws[c].chat).patient,
                  ws[c].msg, ws[c].count, ListFrames(RequestOf(ws[c].chat).patient)))
    /\ ws' = [ws EXCEPT ![c].pc = "count_doctor"]
    /\ UNCHANGED <<profiles, saving, lists, doctors, requests, chats, messages, now, http>>

\* if chat_info["doctor_id"]: doctor_unread = await self.get_unread_count(...)
WsCountDoctor(c) ==
    /\ ws[c].pc = "count_doctor"
    /\ ws' = [ws EXCEPT ![c] =
         IF ws[c].doctor_id = NULL
           THEN [ws[c] EXCEPT !.pc = "status"]
           ELSE [ws[c] EXCEPT !.pc = "notify_doctor",
                    !.count = get_unread_count(ws[c].chat, ws[c].doctor_id)]]
    /\ UNCHANGED <<profiles, saving, lists, doctors, requests, chats, messages, now, http, published>>

\* new_chat_message to user_{doctor_id}_chats with the doctor's unread count
WsNotifyDoctor(c) ==
    /\ ws[c].pc = "notify_doctor"
    /\ published' = Append(published,
            Event("new_chat_message", ws[c].chat, ws[c].doctor_id,
                  ws[c].msg, ws[c].count, ListFrames(ws[c].doctor_id)))
    /\ ws' = [ws EXCEPT ![c].pc = "status"]
    /\ UNCHANGED <<profiles, saving, lists, doctors, requests, chats, messages, now, http>>

\* Mutant: a failed fan-out takes the Message back and closes the connection
WsFanoutFailsRollback(c) ==
    /\ ws[c].pc \in {"publish", "notify_patient", "notify_doctor"}
    /\ MessageSaved(ws[c].msg)
    /\ messages' = SubSeq(messages, 1, ws[c].msg - 1)
    /\ ws' = [ws EXCEPT ![c] = WsClosed]
    /\ UNCHANGED <<profiles, saving, lists, doctors, requests, chats, now, http, published>>

\* group_send raises: the except branch of receive() sends an error frame
\* and receive() ends, update_request_status is not reached
WsFanoutFails(c) ==
    /\ ws[c].pc \in {"publish", "notify_patient", "notify_doctor"}
    /\ MessageSaved(ws[c].msg)
    /\ ws' = [ws EXCEPT ![c].pc = "done", ![c].result = "error_exception"]
    /\ UNCHANGED <<profiles, saving, lists, doctors, requests, chats, messages, now, http, published>>

\* ChatConsumer.update_request_status
update_request_status(c) ==
    /\ ws[c].pc = "status"
    /\ LET r == chats[ws[c].chat].request
           row == [requests[r] EXCEPT !.status = ReplyStatus(ws[c].isDoctor)]
       IN requests' = IF ForeignKeyOk(row) THEN [requests EXCEPT ![r] = row] ELSE requests
    /\ ws' = [ws EXCEPT ![c] = WsIdle(ws[c])]
    /\ UNCHANGED <<profiles, saving, lists, doctors, chats, messages, now, http, published>>

\* Typing frames published so far
TypingCount == Cardinality({i \in 1..Len(published) : published[i].type = "typing_indicator"})

\* receive(), type typing: group_send of typing_indicator to chat_{chat_id}
WsTyping(c) ==
    /\ ws[c].open /\ ws[c].pc = "idle"
    /\ TypingCount < MaxTyping
    /\ published' = Append(published,
            Event("typing_indicator", ws[c].chat, ws[c].user, 0, 0,
                  TypingFrames(ws[c].chat, ws[c].user)))
    /\ UNCHANGED <<profiles, saving, lists, doctors, requests, chats, messages, now, http, ws>>

\* The ids a read_messages frame or a mark selects, as a sequence
RECURSIVE SelectIds(_, _)
SelectIds(ids, seq) ==
    IF seq = <<>> THEN <<>>
    ELSE IF Head(seq) \in ids THEN <<Head(seq)>> \o SelectIds(ids, Tail(seq))
    ELSE SelectIds(ids, Tail(seq))

\* Mutant: the ids of the frame are marked whatever their chat and sender
mark_messages_as_read_any(c, ids) ==
    /\ ws[c].open /\ ws[c].pc = "idle"
    /\ messages' = MarkAll(messages, SelectIds(ids \cap MessageIds, <<1, 2, 3>>))
    /\ UNCHANGED <<profiles, saving, lists, doctors, requests, chats, now, http, ws, published>>

\* ChatConsumer.mark_messages_as_read(message_ids)
mark_messages_as_read(c, ids) ==
    /\ ws[c].open /\ ws[c].pc = "idle"
    /\ messages' = MarkAll(messages, SelectIds(ids, UnreadMessages(ws[c].chat, ws[c].user)))
    /\ UNCHANGED <<profiles, saving, lists, doctors, requests, chats, now, http, ws, published>>

\* -------------------------------------------------------- ChatListConsumer
\* ChatListConsumer.mark_chat_as_read(chat_id), chat_id taken from the frame
mark_chat_as_read(u, ch) ==
    /\ ch \in ChatIds
    /\ messages' = MarkAll(messages, UnreadMessages(ch, u))
    /\ UNCHANGED <<profiles, saving, lists, doctors, requests, chats, now, http, ws, published>>

\* ChatListConsumer.connect: an unauthenticated connection is closed before
\* user_group_name is set; otherwise the connection joins user_{id}_chats
ListConnect(l, u) ==
    /\ lists[l].state \in {"none", "closed"}
    /\ lists' = [lists EXCEPT ![l] =
         IF is_authenticated(u)
           THEN [state |-> "open", user |-> u, hasGroup |-> TRUE, result |-> "none"]
           ELSE [state |-> "rejected", user |-> u, hasGroup |-> FALSE, result |-> "none"]]
    /\ UNCHANGED <<profiles, saving, doctors, requests, chats, messages, now, http, ws, published>>

\* ChatListConsumer.disconnect: group_discard(self.user_group_name, ...);
\* reading an attribute that connect has not set raises AttributeError
ListDisconnect(l) ==
    /\ lists[l].state \in {"open", "rejected"}
    /\ lists' = [lists EXCEPT ![l] =
         [lists[l] EXCEPT !.state = "closed",
            !.result = IF lists[l].hasGroup THEN "ok" ELSE "attribute_error"]]
    /\ UNCHANGED <<profiles, saving, doctors, requests, chats, messages, now, http, ws, published>>

\* ChatListConsumer.receive, type mark_chat_read
ListMarkChatRead(l, ch) ==
    /\ lists[l].state = "open"
    /\ mark_chat_as_read(lists[l].user, ch)

\* ------------------------------------------------------- specifications
\* The request lifecycle: creation, acceptance, the administrative actions,
\* doctor deletion, and replies over both entry points (one fixed text)
Next ==
    \/ \E u \in Users : HttpReturn(u)
    \/ \E u \in Users, sp \in Specialization : RequestCreate(u, sp)
    \/ \E u \in Users, r \in 1..MaxRequests : AcceptLoad(u, r)
    \/ \E u \in Users : AcceptSave(u)
    \/ \E u \in Users : AcceptCreateChat(u)
    \/ \E r \in 1..MaxRequests : assign_status_waiting(r)
    \/ \E r \in 1..MaxRequests : assign_status_closed(r)
    \/ \E d \in DoctorUsers : DoctorDelete(d)
    \/ \E u \in Users, ch \in 1..MaxRequests : SendLoad(u, ch, "hi", FALSE)
    \/ \E u \in Users : SendSaveMessage(u)
    \/ \E u \in Users : SendSaveRequest(u)
    \/ \E c \in FirstConn, u \in Users, ch \in 1..MaxRequests : WsConnect(c, u, ch)
    \/ \E c \in FirstConn : WsDisconnect(c)
    \/ \E c \in FirstConn : WsReceiveChatMessage(c, "hi", FALSE)
    \/ \E c \in FirstConn : save_message(c)
    \/ \E c \in FirstConn : WsPublishChat(c)
    \/ \E c \in FirstConn : WsCountPatient(c)
    \/ \E c \in FirstConn : WsNotifyPatient(c)
    \/ \E c \in FirstConn : WsCountDoctor(c)
    \/ \E c \in FirstConn : WsNotifyDoctor(c)
    \/ \E c \in FirstConn : update_request_status(c)

Spec == Init /\ [][Next]_vars

\* The chat of a request that docA accepts (docB stays an outsider): every
\* message input over both entry points, every way of marking messages read,
\* and the clock
ChatNext ==
    \/ Tick
    \/ \E u \in Users : HttpReturn(u)
    \/ \E u \in Users : RequestCreate(u, "nutritionist")
    \/ \E r \in 1..MaxRequests : AcceptLoad("docA", r)
    \/ \E u \in Users : AcceptSave(u)
    \/ \E u \in Users : AcceptCreateChat(u)
    \/ \E u \in Users, ch \in 1..MaxRequests, t \in Texts, f \in BOOLEAN : SendLoad(u, ch, t, f)
    \/ \E u \in Users : SendSaveMessage(u)
    \/ \E u \in Users : SendSaveRequest(u)
    \/ \E u \in Users, ch \in 1..MaxRequests : DetailOpen(u, ch)
    \/ \E u \in Users : DetailMark(u)
    \/ \E c \in FirstConn, u \in Users, ch \in 1..MaxRequests : WsConnect(c, u, ch)
    \/ \E c \in FirstConn : WsDisconnect(c)
    \/ \E c \in FirstConn : WsReturn(c)
    \/ \E c \in FirstConn, t \in Texts, f \in BOOLEAN : WsReceiveChatMessage(c, t, f)
    \/ \E c \in FirstConn : save_message(c)
    \/ \E c \in FirstConn : WsPublishChat(c)
    \/ \E c \in FirstConn : WsCountPatient(c)
    \/ \E c \in FirstConn : WsNotifyPatient(c)
    \/ \E c \in FirstConn : WsCountDoctor(c)
    \/ \E c \in FirstConn : WsNotifyDoctor(c)
    \/ \E c \in FirstConn : update_request_status(c)
    \/ \E c \in FirstConn, ids \in SUBSET (1..MaxMessages) : mark_messages_as_read(c, ids)
    \/ \E u \in Users, ch \in 1..MaxRequests : mark_chat_as_read(u, ch)

ChatSpec == Init /\ [][ChatNext]_vars

\* Two connections to the chat of a request that docA accepts: connect
\* attempts of every user and of the anonymous user, messages over both
\* connections (one fixed text) and typing frames
WsNext ==
    \/ \E u \in Users : HttpReturn(u)
    \/ \E u \in Users : RequestCreate(u, "nutritionist")
    \/ \E r \in 1..MaxRequests : AcceptLoad("docA", r)
    \/ \E u \in Users : AcceptSave(u)
    \/ \E u \in Users : AcceptCreateChat(u)
    \/ \E c \in Conns, u \in Users \cup {Anonymous}, ch \in 1..MaxRequests : WsConnect(c, u, ch)
    \/ \E c \in Conns : WsDisconnect(c)
    \/ \E c \in Conns : WsReceiveChatMessage(c, "hi", FALSE)
    \/ \E c \in Conns : save_message(c)
    \/ \E c \in Conns : WsPublishChat(c)
    \/ \E c \in Conns : WsCountPatient(c)
    \/ \E c \in Conns : WsNotifyPatient(c)
    \/ \E c \in Conns : WsCountDoctor(c)
    \/ \E c \in Conns : WsNotifyDoctor(c)
    \/ \E c \in Conns : update_request_status(c)
    \/ \E c \in Conns : WsTyping(c)

WsSpec == Init /\ [][WsNext]_vars

\* One connection to the chat of a request that docA accepts: messages,
\* frames that are none of the known kinds, and fan-out steps that fail
ErrorNext ==
    \/ \E u \in Users : HttpReturn(u)
    \/ \E u \in Users : RequestCreate(u, "nutritionist")
    \/ \E r \in 1..MaxRequests : AcceptLoad("docA", r)
    \/ \E u \in Users : AcceptSave(u)
    \/ \E u \in Users : AcceptCreateChat(u)
    \/ \E c \in FirstConn, u \in Users, ch \in 1..MaxRequests : WsConnect(c, u, ch)
    \/ \E c \in FirstConn : WsDisconnect(c)
    \/ \E c \in FirstConn : WsReturn(c)
    \/ \E c \in FirstConn, kind \in Malformed : WsReceiveMalformed(c, kind)
    \/ \E c \in FirstConn, t \in Texts, f \in BOOLEAN : WsReceiveChatMessage(c, t, f)
    \/ \E c \in FirstConn : save_message(c)
    \/ \E c \in FirstConn : WsPublishChat(c)
    \/ \E c \in FirstConn : WsCountPatient(c)
    \/ \E c \in FirstConn : WsNotifyPatient(c)
    \/ \E c \in FirstConn : WsCountDoctor(c)
    \/ \E c \in FirstConn : WsNotifyDoctor(c)
    \/ \E c \in FirstConn : WsFanoutFails(c)
    \/ \E c \in FirstConn : update_request_status(c)
    \/ \E u \in Users, ch \in 1..MaxRequests : mark_chat_as_read(u, ch)

ErrorSpec == Init /\ [][ErrorNext]_vars

\* The accounts: UserProfile and Doctor rows are created, re-pointed to
\* another user and deleted, the saves interleaving between validation and
\* write
ProfileNext ==
    \/ \E old \in Accounts \cup {NULL}, u \in Accounts : UserProfileSaveClean(old, u)
    \/ \E old \in Accounts \cup {NULL}, u \in Accounts : UserProfileSaveWrite(old, u)
    \/ \E old \in Accounts \cup {NULL}, u \in Accounts : DoctorSaveClean(old, u)
    \/ \E old \in Accounts \cup {NULL}, u \in Accounts : DoctorSaveWrite(old, u)
    \/ \E d \in Accounts : DoctorDelete(d)

ProfileSpec == Init /\ [][ProfileNext]_vars

\* Connections that come and go: one chat connection and one chat-list
\* connection, accepted or rejected at connect, while messages are sent over
\* the chat connection
ListNext ==
    \/ \E u \in Users : HttpReturn(u)
    \/ \E u \in Users : RequestCreate(u, "nutritionist")
    \/ \E r \in 1..MaxRequests : AcceptLoad("docA", r)
    \/ \E u \in Users : AcceptSave(u)
    \/ \E u \in Users : AcceptCreateChat(u)
    \/ \E c \in FirstConn, u \in Users, ch \in 1..MaxRequests : WsConnect(c, u, ch)
    \/ \E c \in FirstConn, u \in Users \cup {Anonymous}, ch \in 1..MaxRequests :
            WsConnectRejected(c, u, ch)
    \/ \E c \in FirstConn : WsDisconnect(c)
    \/ \E c \in FirstConn : WsDisconnectRejected(c)
    \/ \E c \in FirstConn : WsReceiveChatMessage(c, "hi", FALSE)
    \/ \E c \in FirstConn : save_message(c)
    \/ \E c \in FirstConn : WsPublishChat(c)
    \/ \E c \in FirstConn : WsCountPatient(c)
    \/ \E c \in FirstConn : WsNotifyPatient(c)
    \/ \E c \in FirstConn : WsCountDoctor(c)
    \/ \E c \in FirstConn : WsNotifyDoctor(c)
    \/ \E c \in FirstConn : update_request_status(c)
    \/ \E l \in ListConns, u \in Users \cup {Anonymous} : ListConnect(l, u)
    \/ \E l \in ListConns : ListDisconnect(l)
    \/ \E l \in ListConns, ch \in 1..MaxRequests : ListMarkChatRead(l, ch)

ListSpec == Init /\ [][ListNext]_vars

\* Two chats of the same patient and doctor: messages over HTTP and every
\* way of marking messages read, with ids of the other chat and ids that do
\* not exist
MarkNext ==
    \/ \E u \in Users : HttpReturn(u)
    \/ \E u \in Users : RequestCreateUpTo(u, "nutritionist", MaxChats)
    \/ \E r \in 1..MaxChats : AcceptLoad("docA", r)
    \/ \E u \in Users : AcceptSave(u)
    \/ \E u \in Users : AcceptCreateChat(u)
    \/ \E u \in Users, ch \in 1..MaxChats : SendLoad(u, ch, "hi", FALSE)
    \/ \E u \in Users : SendSaveMessage(u)
    \/ \E u \in Users : SendSaveRequest(u)
    \/ \E u \in Users, ch \in 1..MaxChats : DetailOpen(u, ch)
    \/ \E u \in Users : DetailMark(u)
    \/ \E c \in FirstConn, u \in Users, ch \in 1..MaxChats : WsConnect(c, u, ch)
    \/ \E c \in FirstConn : WsDisconnect(c)
    \/ \E c \in FirstConn, ids \in SUBSET (1..MaxMessages + 1) : mark_messages_as_read(c, ids)
    \/ \E u \in Users, ch \in 1..MaxChats + 1 : mark_chat_as_read(u, ch)

MarkSpec == Init /\ [][MarkNext]_vars

\* ------------------------------------------------------------------ claims
\* Chat rows of request r in the next state
ChatsOfNext(r) == {c \in 1..Len(chats') : chats'[c].request = r}

\* C1: a waiting Request has no doctor; doctor becomes non-null only by the
\* save of an accept, and once non-null it never becomes null again.
C1_DoctorNullWhileWaiting ==
    [][\A r \in 1..Len(requests') :
          /\ requests'[r].status = WAITING => requests'[r].doctor = NULL
          /\ r \in RequestIds =>
               /\ requests[r].doctor # NULL => requests'[r].doctor # NULL
               /\ (requests[r].doctor = NULL /\ requests'[r].doctor # NULL) =>
                    \E u \in Users : http[u].pc = "accept_save" /\ http'[u].pc = "accept_chat"
      ]_vars

\* An accept of u on a waiting Request starts in this step (it ends at once
\* with a mismatch, or it goes on to save the Request)
AcceptStarts(u) ==
    /\ http[u].pc = "idle"
    /\ \/ http'[u].pc = "accept_save"
       \/ http'[u].pc = "done" /\ http'[u].result = "accept_mismatch"

\* C2: accept on a waiting Request of another specialization fails with the
\* mismatch, changes neither the Request nor the Chats, and the handler does
\* nothing afterwards; the mismatch is reported only in that case.
C2_MismatchRejected ==
    [][\A u \in Users :
          /\ AcceptStarts(u) =>
               LET r == http'[u].r
                   waiting == r \in RequestIds /\ requests[r].status = WAITING
                   differs == requests[r].specialization # DoctorSpecialization(u)
               IN /\ (waiting /\ differs) =>
                        /\ http'[u].result = "accept_mismatch"
                        /\ requests' = requests /\ chats' = chats
                  /\ http'[u].result = "accept_mismatch" => (waiting /\ differs)
          /\ (http[u].result = "accept_mismatch" /\ http'[u] # http[u]) =>
               /\ http'[u] = HttpIdle
               /\ requests' = requests /\ chats' = chats
      ]_vars

C2_Witness ==
    \E u \in Users :
        /\ http[u].result = "accept_mismatch"
        /\ requests[http[u].r].status = WAITING
        /\ requests[http[u].r].doctor = NULL
        /\ requests[http[u].r].specialization # DoctorSpecialization(u)
        /\ ChatsOf(http[u].r) = {}

\* C3: when an accept succeeds, the Request has the accepting doctor and
\* status assigned, and exactly one Chat of that Request exists.
C3_AcceptPostcondition ==
    [][\A u \in Users :
          (http[u].pc = "accept_chat" /\ http'[u].result = "accept_ok") =>
              /\ requests'[http[u].r].doctor = u
              /\ requests'[http[u].r].status = ASSIGNED
              /\ Cardinality(ChatsOfNext(http[u].r)) = 1
      ]_vars

\* C4: no Request ever has two Chats; creating a Chat for a Request that has
\* one fails and leaves the Chat rows as they are.
C4_OneChatPerRequest ==
    [][/\ \A r \in 1..MaxRequests : Cardinality(ChatsOfNext(r)) <= 1
       /\ \A u \in Users :
            (http[u].pc = "accept_chat" /\ http'[u] # http[u] /\ ChatsOf(http[u].r) # {}) =>
                /\ http'[u].result = "accept_error_chat"
                /\ chats' = chats
      ]_vars

C4_Witness ==
    \E u \in Users :
        /\ http[u].result = "accept_error_chat"
        /\ Cardinality(ChatsOf(http[u].r)) = 1

\* C5: in every state a Request has a Chat exactly if its status is not
\* waiting.
C5_ChatIffAccepted ==
    \A r \in RequestIds : (ChatsOf(r) # {}) <=> (requests[r].status # WAITING)

\* C6: is_read never goes back from true to false (so it turns true at most
\* once), and read_at is set exactly if is_read is true.
C6_ReadOnce ==
    [][\A m \in 1..Len(messages') :
          /\ messages'[m].is_read <=> messages'[m].read_at # NoTime
          /\ (m \in MessageIds /\ messages[m].is_read) => messages'[m].is_read
      ]_vars

C6_Witness ==
    \E m \in MessageIds : messages[m].is_read /\ messages[m].read_at # NoTime

\* The messages of chat ch that count as unread for viewer v
UnreadSet(ch, v) ==
    {m \in MessageIds :
        messages[m].chat = ch /\ ~messages[m].is_read /\ messages[m].sender # v}

\* C7: in every state the unread count of a chat for a viewer, as the model
\* method and as the consumer compute it, is the number of unread messages
\* of the chat that the viewer did not send.
C7_UnreadCount ==
    \A ch \in ChatIds, v \in Users :
        /\ get_unread_count_for_user(ch, v) = Cardinality(UnreadSet(ch, v))
        /\ get_unread_count(ch, v) = Cardinality(UnreadSet(ch, v))

C7_Witness ==
    \E ch \in ChatIds, v \in Users :
        /\ get_unread_count_for_user(ch, v) = 1
        /\ \E m \in MessageIds :
              messages[m].chat = ch /\ messages[m].sender # v /\ messages[m].is_read

\* The chat detail view of u completes in this step
DetailCompletes(u) ==
    /\ http[u].pc \in {"idle", "detail_mark"}
    /\ http'[u].pc = "done" /\ http'[u].result = "detail_ok"

\* The messages of chat ch, not sent by u, that are unread in the next state
UnreadSetNext(ch, u) ==
    {m \in 1..Len(messages') :
        messages'[m].chat = ch /\ ~messages'[m].is_read /\ messages'[m].sender # u}

\* C8 as stated: when the chat detail view completes, the viewer's unread
\* count is 0 and every message of the other side that existed before is
\* read with read_at set.
C8_DetailLeavesNoUnread ==
    [][\A u \in Users :
          DetailCompletes(u) =>
              /\ Cardinality(UnreadSetNext(http'[u].r, u)) = 0
              /\ \A m \in 1..http'[u].seen :
                    (messages'[m].chat = http'[u].r /\ messages'[m].sender # u) =>
                        (messages'[m].is_read /\ messages'[m].read_at # NoTime)
      ]_vars

\* C8 as amended: when the chat detail view completes, every message of the
\* other side that existed when the view loaded the unread messages is read
\* with read_at set; only messages persisted after that load are counted as
\* unread.
C8_DetailMarksLoaded ==
    [][\A u \in Users :
          DetailCompletes(u) =>
              /\ \A m \in UnreadSetNext(http'[u].r, u) : m > http'[u].seen
              /\ \A m \in 1..http'[u].seen :
                    (messages'[m].chat = http'[u].r /\ messages'[m].sender # u) =>
                        (messages'[m].is_read /\ messages'[m].read_at # NoTime)
      ]_vars

C8_Witness ==
    \E u \in Users :
        /\ http[u].result = "detail_ok"
        /\ \E m \in 1..http[u].seen :
              /\ messages[m].chat = http[u].r /\ messages[m].sender # u
              /\ messages[m].is_read /\ messages[m].read_at # NoTime

\* A submitted message with nothing in it
Blank(text, file) == text \in {"", " "} /\ ~file

\* C9: a send with blank text and no file is refused on both entry points:
\* it never reaches the save, the refusing step changes no Message, Request,
\* Chat or published event, and the handler does nothing afterwards.
C9_EmptyRejected ==
    [][/\ \A u \in Users :
            /\ http'[u].pc = "send_message" => ~Blank(http'[u].text, http'[u].file)
            /\ (http[u].pc = "idle" /\ http'[u].result = "send_invalid") =>
                 /\ Blank(http'[u].text, http'[u].file)
                 /\ UNCHANGED <<messages, requests, chats, published>>
            /\ (http[u].result = "send_invalid" /\ http'[u] # http[u]) =>
                 /\ http'[u] = HttpIdle
                 /\ UNCHANGED <<messages, requests, chats, published>>
       /\ \A c \in Conns :
            /\ ws'[c].pc = "save" => ~Blank(ws'[c].text, ws'[c].file_url)
            /\ (ws[c].pc = "idle" /\ ws'[c].result = "error") =>
                 /\ Blank(ws'[c].text, ws'[c].file_url)
                 /\ UNCHANGED <<messages, requests, chats, published>>
            /\ (ws[c].result = "error" /\ ws'[c] # ws[c]) =>
                 /\ ws'[c].pc = "idle" /\ ws'[c].open
                 /\ UNCHANGED <<messages, requests, chats, published>>
      ]_vars

C9_Witness ==
    /\ \E u \in Users : http[u].result = "send_invalid" /\ http[u].text = " "
    /\ \E c \in Conns : ws[c].result = "error" /\ ws[c].text = " "
    /\ messages # <<>> /\ published # <<>>

\* C10: every persisted Message has a non-empty text or a file.
C10_TextOrFile ==
    \A m \in MessageIds : messages[m].text # "" \/ messages[m].file

Participant(u, ch) ==
    \/ RequestOf(ch).patient = u
    \/ RequestOf(ch).doctor = u /\ u \in doctors

\* C12: whenever a Message is persisted, its sender is at that moment the
\* patient or the assigned doctor of the chat's Request.
C12_SenderIsParticipant ==
    [][Len(messages') > Len(messages) =>
          Participant(messages'[Len(messages')].sender, messages'[Len(messages')].chat)
      ]_vars

\* C13: a connection joins the group of a chat only when its user is
\* authenticated and is the patient or the assigned doctor of that existing
\* chat at that moment, and the frames of every chat_message and typing event
\* go only to connections that are in the group of the event's chat.
C13_OnlyParticipantsJoin ==
    [][/\ \A c \in Conns :
            (~ws[c].open /\ ws'[c].open) =>
                /\ is_authenticated(ws'[c].user)
                /\ ws'[c].chat \in ChatIds
                /\ Participant(ws'[c].user, ws'[c].chat)
       /\ Len(published') > Len(published) =>
            \A f \in published'[Len(published')].frames :
                /\ ws[f[1]].open
                /\ ws[f[1]].chat = published'[Len(published')].chat
      ]_vars

C13_Witness ==
    /\ \A c \in Conns : ws[c].open
    /\ \E i, j \in 1..Len(published) :
          /\ published[i].type = "chat_message"
          /\ Cardinality(published[i].frames) = 2
          /\ published[j].type = "typing_indicator"
          /\ Cardinality(published[j].frames) = 1

\* C14: the chat_message events of a chat are published in the order in
\* which their Messages were persisted (the order of the message ids).
C14_PublishOrder ==
    \A i, j \in 1..Len(published) :
        (/\ i < j
         /\ published[i].type = "chat_message" /\ published[j].type = "chat_message"
         /\ published[i].chat = published[j].chat) =>
            published[i].message_id < published[j].message_id

\* C15: every published chat_message or new_chat_message event names a
\* Message that is persisted, in the chat of the event.
C15_PublishedIsPersisted ==
    \A i \in 1..Len(published) :
        published[i].type \in {"chat_message", "new_chat_message"} =>
            /\ published[i].message_id \in MessageIds
            /\ messages[published[i].message_id].chat = published[i].chat

C15_Witness ==
    /\ published # <<>>
    /\ \E c \in Conns : ws[c].pc = "publish" /\ ~MessageSaved(ws[c].msg)

\* C16: for the chat_message event of a message sent over connection c, the
\* connection c gets the message_sent frame and every other connection of the
\* chat's group gets the new_message frame.
C16_OneFramePerConnection ==
    [][\A c \in Conns :
          (ws[c].pc = "publish" /\ ws'[c].pc = "count_patient") =>
              published'[Len(published')].frames =
                  {<<c, "message_sent">>} \cup
                  {<<k, "new_message">> :
                      k \in {x \in Conns \ {c} : ws[x].open /\ ws[x].chat = ws[c].chat}}
      ]_vars

\* The new_chat_message event a connection publishes for recipient u with
\* unread count n
Notification(c, u, n) ==
    /\ Len(published') = Len(published) + 1
    /\ published'[Len(published')].type = "new_chat_message"
    /\ published'[Len(published')].chat = ws[c].chat
    /\ published'[Len(published')].user = u
    /\ published'[Len(published')].message_id = ws[c].msg
    /\ published'[Len(published')].unread_count = n

C18_FanoutFailureKeepsMessage ==
    [][/\ \A c \in Conns :
            /\ (ws[c].pc \in {"publish", "notify_patient", "notify_doctor"}
                    /\ ws'[c].result = "error_exception") =>
                  /\ ws[c].msg \in MessageIds
                  /\ messages' = messages
                  /\ ws'[c].open
            /\ (ws[c].result = "error_exception" /\ ws'[c] # ws[c]) =>
                  /\ ws'[c].open /\ ws'[c].pc = "idle"
                  /\ messages' = messages
       /\ \A m \in MessageIds :
            /\ m \in 1..Len(messages')
            /\ [messages'[m] EXCEPT !.is_read = messages[m].is_read,
                                    !.read_at = messages[m].read_at] = messages[m]
      ]_vars

C18_Witness ==
    \E c \in Conns :
        /\ ws[c].result = "error_exception" /\ ws[c].open
        /\ ws[c].msg \in MessageIds
        /\ messages[ws[c].msg].sender = ws[c].user

\* C19: a frame that receive() does not handle as one of the three known
\* kinds (receive() ends in the same step) is answered with one error frame,
\* the connection stays open and no Message, Chat or Request changes.
C19_MalformedAnswered ==
    [][\A c \in Conns :
          (ws[c].pc = "idle" /\ ws'[c].pc = "done") =>
              /\ ws'[c].result \in {"error", "error_json", "error_exception"}
              /\ ws'[c].open
              /\ UNCHANGED <<messages, chats, requests>>
      ]_vars

\* C20: every step that persists a Message strictly advances updated_at of
\* the message's chat.
C20_UpdatedAtAdvances ==
    [][Len(messages') > Len(messages) =>
          chats'[messages'[Len(messages')].chat].updated_at
              > chats[messages'[Len(messages')].chat].updated_at
      ]_vars

\* No handler is running
Quiet ==
    /\ \A u \in Users : http[u].pc = "idle"
    /\ \A c \in Conns : ws[c].pc = "idle"

\* An event of this type for message m has been published
PublishedFor(type, m) ==
    \E i \in 1..Len(published) :
        /\ published[i].type = type
        /\ published[i].message_id = m
        /\ published[i].chat = messages[m].chat

\* C21: once the sends have completed, every persisted Message has its
\* chat_message event and its new_chat_message notifications published.
C21_SendIsPublished ==
    Quiet => \A m \in MessageIds :
                PublishedFor("chat_message", m) /\ PublishedFor("new_chat_message", m)

\* The edges of the Request lifecycle (a status may also stay as it is)
Edge(a, b) ==
    \/ a = b
    \/ b = CLOSED
    \/ a = WAITING /\ b = ASSIGNED
    \/ a = ASSIGNED /\ b \in {WAITING_DOCTOR, DOCTOR_REPLIED}
    \/ a = WAITING_DOCTOR /\ b = DOCTOR_REPLIED
    \/ a = DOCTOR_REPLIED /\ b = WAITING_DOCTOR

\* C22: every status change made by a step of an accept or of a send (a step
\* of an HTTP request or of a consumer) or by close follows an edge of the
\* lifecycle.
C22_StatusEdges ==
    [][\A r \in RequestIds :
          (http' # http \/ ws' # ws \/ requests'[r].status = CLOSED) =>
              Edge(requests[r].status, requests'[r].status)
      ]_vars

\* C23: no user has both a UserProfile and a Doctor.
C23_ProfileOrDoctor ==
    profiles \cap doctors = {}

\* C24: disconnect raises no error for any connection, and the frames of a
\* published event go only to connections that are in the group when it is
\* published.
C24_DisconnectClean ==
    [][/\ \A l \in ListConns : lists'[l].result # "attribute_error"
       /\ Len(published') > Len(published) =>
            \A f \in published'[Len(published')].frames :
                \/ f[1] \in Conns /\ ws[f[1]].open
                \/ f[1] \in ListConns /\ lists[f[1]].state = "open"
      ]_vars

\* C25: an accept attempt that fails has not changed the Request: when the
\* attempt of a doctor ends with the Chat refused, that doctor is not the
\* Request's doctor.
C25_FailedAcceptChangesNothing ==
    [][\A u \in Users :
          (http[u].pc = "accept_chat" /\ http'[u].result = "accept_error_chat") =>
              requests'[http[u].r].doctor # u
      ]_vars

\* C26: once the sends have completed, the status of the Request is the one
\* that the sender of the Message persisted last sets.
C26_StatusOfLastMessage ==
    (Quiet /\ messages # <<>>) =>
        LET last == messages[Len(messages)]
        IN RequestOf(last.chat).status =
              IF last.sender = RequestOf(last.chat).doctor
                THEN DOCTOR_REPLIED ELSE WAITING_DOCTOR

\* C27: read_at of a Message never changes once it is set.
C27_ReadAtWrittenOnce ==
    [][\A m \in MessageIds :
          messages[m].read_at # NoTime => messages'[m].read_at = messages[m].read_at
      ]_vars

\* C28: a mark_chat_read of a user who is neither the patient nor the
\* assigned doctor of the chat changes no Message.
C28_OutsiderMarksNothing ==
    [][\A u \in Users, ch \in 1..MaxRequests :
          (mark_chat_as_read(u, ch) /\ ~Participant(u, ch)) => messages' = messages
      ]_vars

\* The step leaves every Message that u sent and every Message of another
\* chat than ch as it is, and removes or adds none
Untouched(u, ch) ==
    /\ Len(messages') = Len(messages)
    /\ \A m \in MessageIds :
          (messages[m].sender = u \/ messages[m].chat # ch) => messages'[m] = messages[m]

\* C29: each mark-as-read step (chat-detail opening, read_messages with any
\* id list, mark_chat_read with any chat id) leaves the actor's own messages
\* and the messages of other chats unchanged.
C29_MarkFrame ==
    [][/\ \A u \in Users : DetailMark(u) => Untouched(u, http[u].r)
       /\ \A c \in Conns, ids \in SUBSET (1..MaxMessages + 1) :
            mark_messages_as_read(c, ids) => Untouched(ws[c].user, ws[c].chat)
       /\ \A u \in Users, ch \in 1..MaxChats + 1 :
            mark_chat_as_read(u, ch) => Untouched(u, ch)
      ]_vars

C29_Witness ==
    \E m1, m2 \in MessageIds :
        /\ messages[m1].chat # messages[m2].chat
        /\ messages[m1].is_read /\ ~messages[m2].is_read
        /\ \E c \in Conns : ws[c].open /\ ws[c].chat = messages[m1].chat
                               /\ ws[c].user # messages[m1].sender

====
